---- MODULE Spec2Model ----
(***************************************************************************)
(* Model of app.py, the Streamlit welding-inspection page.                 *)
(*                                                                         *)
(* One script run (a render cycle) is one atomic step: Streamlit re-runs   *)
(* the whole script on every widget event of a session, and the script has *)
(* no other entry point.  The state is what survives a run: the session's  *)
(* st.session_state, the values of the two input widgets, the process-wide *)
(* st.cache_resource entry of init_vertex_ai, and the page the run drew.   *)
(* The locals of the last run are kept in `run` so that properties can     *)
(* speak about them.                                                       *)
(*                                                                         *)
(* Python values: None is PyNone, a str is PyStr(<<characters>>), a float  *)
(* confidence c is the integer 100*c (hundredths).  best_score =           *)
(* confidence * 100 therefore is kept in units of 1/100 percent.           *)
(*                                                                         *)
(* Not modelled: the CSS, header and footer markup, and the content of the *)
(* request (the base64 text of the image bytes); the endpoint's answer is  *)
(* an input of the run and does not depend on them.                        *)
(***************************************************************************)
EXTENDS Integers, Sequences, FiniteSets, TLC

\* Bounds of the model.
MaxInspectLen == 3      \* longest list of a reply in the single-inspection specification
MaxInspections == 3     \* trigger presses are cut off once total_inspected reaches this
MaxAuthCalls == 2       \* executions of init_vertex_ai's body are cut off at this

VARIABLES session_state, img_file_cam, img_file_up, endpoint_cache,
          auth_calls, page, run, completed, endpoint_reply

vars == <<session_state, img_file_cam, img_file_up, endpoint_cache,
          auth_calls, page, run, completed, endpoint_reply>>

----------------------------------------------------------------------------
\* Python values

PyNone == [type |-> "NoneType"]
PyStr(s) == [type |-> "str", chars |-> s]

UpperCase == <<"A","B","C","D","E","F","G","H","I","J","K","L","M",
               "N","O","P","Q","R","S","T","U","V","W","X","Y","Z">>
LowerCase == <<"a","b","c","d","e","f","g","h","i","j","k","l","m",
               "n","o","p","q","r","s","t","u","v","w","x","y","z">>

\* str.lower() on one character
LowerChar(c) ==
    IF \E i \in 1..Len(UpperCase) : UpperCase[i] = c
    THEN LowerCase[CHOOSE i \in 1..Len(UpperCase) : UpperCase[i] = c]
    ELSE c

\* str.lower()
lower(s) == PyStr([i \in 1..Len(s.chars) |-> LowerChar(s.chars[i])])

\* The labels used as inputs
Normal   == PyStr(<<"N","o","r","m","a","l">>)
Defect   == PyStr(<<"D","e","f","e","c","t">>)
DEFECT   == PyStr(<<"D","E","F","E","C","T">>)
defect   == PyStr(<<"d","e","f","e","c","t">>)
BadWeld  == PyStr(<<"B","a","d"," ","W","e","l","d">>)
bad_weld == PyStr(<<"b","a","d"," ","w","e","l","d">>)
Unknown  == PyStr(<<"U","n","k","n","o","w","n">>)

\* the tuple ("defect", "bad weld") of line 208
DefectLabels == {defect, bad_weld}

----------------------------------------------------------------------------
\* Session state initialisation

NoSessionState == [k \in {} |-> 0]

SetDefault(ss, key) == IF key \notin DOMAIN ss THEN (key :> 0) @@ ss ELSE ss

InitSessionState(ss) ==
    SetDefault(SetDefault(SetDefault(ss, "total_inspected"),
                          "defect_count"), "normal_count")

----------------------------------------------------------------------------
\* Dashboard

ZeroDivisionError == [exc |-> "ZeroDivisionError"]

\* a / b * 100 as the exact rational num/den; Python raises on b = 0
Percent(a, b) == IF b = 0 THEN ZeroDivisionError ELSE [num |-> a * 100, den |-> b]

\* format(q, ".1f"): the nearest multiple of 1/10, an exact tie going to the
\* even digit; the result is the number of tenths
Format1f(q) ==
    LET n == q.num * 10
        fl == n \div q.den
        r2 == 2 * (n % q.den)
    IN  IF r2 < q.den THEN fl
        ELSE IF r2 > q.den THEN fl + 1
        ELSE IF fl % 2 = 0 THEN fl ELSE fl + 1

Placeholder == [text |-> "dash"]

\* defect_rate guarded by the defect count instead of the total
defect_rate_by_defects(defects, total) ==
    IF defects > 0
    THEN LET q == Percent(defects, total)
         IN  IF q = ZeroDivisionError THEN q
             ELSE [text |-> "percent", tenths |-> Format1f(q)]
    ELSE Placeholder

defect_rate(defects, total) ==
    IF total > 0
    THEN LET q == Percent(defects, total)
         IN  IF q = ZeroDivisionError THEN q
             ELSE [text |-> "percent", tenths |-> Format1f(q)]
    ELSE Placeholder

Dashboard(ss) ==
    [total   |-> ss["total_inspected"],
     defects |-> ss["defect_count"],
     normals |-> ss["normal_count"],
     defect_rate |-> defect_rate(ss["defect_count"], ss["total_inspected"])]

----------------------------------------------------------------------------
\* Image input

CameraShot == [type |-> "UploadedFile", name |-> "camera"]
UploadedJpg == [type |-> "UploadedFile", name |-> "weld.jpg"]

\* bool(x) for the values a widget returns
Truthy(x) == x # PyNone

\* img_file_select with the two assignments in the other order
img_file_select_camera_last(cam, up) ==
    LET f0 == PyNone
        f1 == IF Truthy(up) THEN up ELSE f0
        f2 == IF Truthy(cam) THEN cam ELSE f1
    IN  f2

img_file_select(cam, up) ==
    LET f0 == PyNone
        f1 == IF Truthy(cam) THEN cam ELSE f0
        f2 == IF Truthy(up) THEN up ELSE f1
    IN  f2

----------------------------------------------------------------------------
\* The cached endpoint initialiser

NoEntry == [type |-> "NoEntry"]
Endpoint == [type |-> "Endpoint"]

\* init_vertex_ai without the cache decorator: the body runs on every call
init_vertex_ai_uncached(cache, body_ok) ==
    IF body_ok
    THEN [cache |-> Endpoint, executed |-> TRUE, raised |-> FALSE]
    ELSE [cache |-> cache, executed |-> TRUE, raised |-> TRUE]

\* init_vertex_ai() under @st.cache_resource: the body runs only on a cache
\* miss, and only a returned value is stored (an exception is not cached).
\* body_ok says whether the body, if it runs, returns.
init_vertex_ai(cache, body_ok) ==
    IF cache # NoEntry
    THEN [cache |-> cache, executed |-> FALSE, raised |-> FALSE]
    ELSE IF body_ok
         THEN [cache |-> Endpoint, executed |-> TRUE, raised |-> FALSE]
         ELSE [cache |-> NoEntry, executed |-> TRUE, raised |-> TRUE]

----------------------------------------------------------------------------
\* The prediction block

\* What endpoint.predict does: it raises, or returns a response
TransportError == [exc |-> "TransportError"]

\* The exception the except clause of line 245 caught
Raised(name) == [type |-> "Exception", name |-> name]

RECURSIVE MaxFrom(_, _, _)
\* max(xs): the first maximal element (a later element replaces the
\* candidate only when it is strictly greater)
MaxFrom(xs, i, best) ==
    IF i > Len(xs) THEN best
    ELSE MaxFrom(xs, i + 1, IF xs[i] > best THEN xs[i] ELSE best)

max(xs) == MaxFrom(xs, 2, xs[1])

RECURSIVE IndexFrom(_, _, _)
\* xs.index(v): position of the first element equal to v (0-based)
IndexFrom(xs, v, i) ==
    IF xs[i] = v THEN i - 1 ELSE IndexFrom(xs, v, i + 1)

RECURSIVE IndexBack(_, _, _)
IndexBack(xs, v, i) ==
    IF xs[i] = v THEN i - 1 ELSE IndexBack(xs, v, i - 1)

\* index that scans from the end: the last element equal to v
index_last(xs, v) == IndexBack(xs, v, Len(xs))

index(xs, v) == IndexFrom(xs, v, 1)

\* is_defect without lower(): a case-sensitive comparison
is_defect_exact(best_label) == best_label \in DefectLabels

is_defect(best_label) == lower(best_label) \in DefectLabels

\* st.progress(conf) accepts a float only in [0.0, 1.0]
ProgressAccepts(conf) == 0 <= conf /\ conf <= 100

RECURSIVE RowsRendered(_, _, _)
\* the zip loop of the expander: rows drawn before st.progress raises
RowsRendered(labels, confidences, i) ==
    IF i > Len(labels) \/ i > Len(confidences) THEN i - 1
    ELSE IF ~ProgressAccepts(confidences[i]) THEN i - 1
    ELSE RowsRendered(labels, confidences, i + 1)

ZipLen(labels, confidences) ==
    IF Len(labels) < Len(confidences) THEN Len(labels) ELSE Len(confidences)

\* The locals and outputs of a run that did not enter the prediction block
NoRun(ss, cache) ==
    [ss |-> ss, cache |-> cache, pressed |-> FALSE, executed |-> FALSE,
     predict_calls |-> 0, max_idx |-> PyNone, best_label |-> PyNone,
     best_score |-> PyNone, labels |-> PyNone, confidences |-> PyNone,
     verdict |-> PyNone, rows |-> 0, error |-> PyNone, completed |-> FALSE]

Increment(ss, key) == [ss EXCEPT ![key] = @ + 1]

\* Lines 207-212 up to the call of lower(): the total is counted first
CountTotal(ss) == Increment(ss, "total_inspected")

\* Lines 209-212
CountVerdict(ss, isdef) ==
    IF isdef THEN Increment(ss, "defect_count") ELSE Increment(ss, "normal_count")

\* Lines 214-243: verdict panel, then the expander
ShowResult(r, labels, confidences) ==
    LET isdef == is_defect(r.best_label)
        r1 == [r EXCEPT !.ss = CountVerdict(r.ss, isdef),
                        !.verdict = [headline |-> IF isdef THEN "DEFECT" ELSE "NORMAL",
                                     label |-> r.best_label,
                                     score |-> r.best_score]]
        n == RowsRendered(labels, confidences, 1)
    IN  IF n < ZipLen(labels, confidences)
        THEN [r1 EXCEPT !.rows = n, !.error = Raised("StreamlitAPIException")]
        ELSE [r1 EXCEPT !.rows = n, !.completed = TRUE]

\* Lines 198-212
Select(r, response) ==
    IF Len(response.predictions) = 0 THEN [r EXCEPT !.error = Raised("IndexError")]
    ELSE LET predictions == response.predictions[1] IN
    IF "displayNames" \notin DOMAIN predictions \/ "confidences" \notin DOMAIN predictions
    THEN [r EXCEPT !.error = Raised("KeyError")]
    ELSE LET labels == predictions.displayNames
             confidences == predictions.confidences
             r1 == [r EXCEPT !.labels = labels, !.confidences = confidences] IN
    IF Len(confidences) = 0 THEN [r1 EXCEPT !.error = Raised("ValueError")]
    ELSE LET max_idx == index(confidences, max(confidences))
             r2 == [r1 EXCEPT !.max_idx = max_idx] IN
    IF max_idx + 1 > Len(labels) THEN [r2 EXCEPT !.error = Raised("IndexError")]
    ELSE LET best_label == labels[max_idx + 1]
             best_score == confidences[max_idx + 1] * 100
             r3 == [r2 EXCEPT !.best_label = best_label, !.best_score = best_score,
                              !.ss = CountTotal(r.ss)] IN
    IF best_label.type # "str" THEN [r3 EXCEPT !.error = Raised("AttributeError")]
    ELSE ShowResult(r3, labels, confidences)

\* Predict that calls endpoint.predict a second time when the first call raised
Predict_retry(ss, cache, body_ok, reply) ==
    LET init == init_vertex_ai(cache, body_ok)
        r0 == [NoRun(ss, init.cache) EXCEPT !.pressed = TRUE,
                                            !.executed = init.executed]
    IN  IF init.raised THEN [r0 EXCEPT !.error = Raised("AuthError")]
        ELSE LET r1 == [r0 EXCEPT !.predict_calls = 1] IN
             IF reply = TransportError
             THEN [r1 EXCEPT !.predict_calls = 2, !.error = Raised("TransportError")]
             ELSE Select(r1, reply)

\* Lines 189-246: the body of the button branch.  body_ok: whether the body
\* of init_vertex_ai returns if it runs; reply: what endpoint.predict does.
Predict(ss, cache, body_ok, reply) ==
    LET init == init_vertex_ai(cache, body_ok)
        r0 == [NoRun(ss, init.cache) EXCEPT !.pressed = TRUE,
                                            !.executed = init.executed]
    IN  IF init.raised THEN [r0 EXCEPT !.error = Raised("AuthError")]
        ELSE LET r1 == [r0 EXCEPT !.predict_calls = 1] IN
             IF reply = TransportError THEN [r1 EXCEPT !.error = Raised("TransportError")]
             ELSE Select(r1, reply)

----------------------------------------------------------------------------
\* One run of the script

BlankPage ==
    [rendered |-> FALSE, dashboard |-> PyNone, img_file |-> PyNone,
     button |-> FALSE, verdict |-> PyNone, rows |-> 0, error |-> PyNone]

\* Script with the dashboard drawn after the prediction block
Script_dashboard_last(ss0, cam, up, cache, pressed, body_ok, reply) ==
    LET ss == InitSessionState(ss0)
        img_file == img_file_select(cam, up)
        button == img_file # PyNone
        r == IF button /\ pressed
             THEN Predict(ss, cache, body_ok, reply)
             ELSE NoRun(ss, cache)
        dashboard == Dashboard(r.ss)
    IN  [r EXCEPT !.pressed = pressed] @@
        [page |-> [rendered |-> TRUE, dashboard |-> dashboard,
                   img_file |-> img_file, button |-> button,
                   verdict |-> r.verdict, rows |-> r.rows, error |-> r.error]]

\* Lines 113-256.  pressed: the value st.button returns in this run.
Script(ss0, cam, up, cache, pressed, body_ok, reply) ==
    LET ss == InitSessionState(ss0)
        dashboard == Dashboard(ss)
        img_file == img_file_select(cam, up)
        button == img_file # PyNone
        r == IF button /\ pressed
             THEN Predict(ss, cache, body_ok, reply)
             ELSE NoRun(ss, cache)
    IN  [r EXCEPT !.pressed = pressed] @@
        [page |-> [rendered |-> TRUE, dashboard |-> dashboard,
                   img_file |-> img_file, button |-> button,
                   verdict |-> r.verdict, rows |-> r.rows, error |-> r.error]]

\* The state after a run.  endpoint_reply records what endpoint.predict did in it.
Rerun(cam, up, pressed, body_ok, rep) ==
    \E r \in {Script(session_state, cam, up, endpoint_cache, pressed, body_ok, rep)} :
        /\ session_state' = r.ss
        /\ img_file_cam' = cam
        /\ img_file_up' = up
        /\ endpoint_cache' = r.cache
        /\ auth_calls' = IF r.executed THEN auth_calls + 1 ELSE auth_calls
        /\ page' = r.page
        /\ run' = [k \in (DOMAIN r) \ {"ss", "cache", "page"} |-> r[k]]
        /\ completed' = IF r.completed THEN completed + 1 ELSE completed
        /\ endpoint_reply' = IF r.predict_calls > 0 THEN rep ELSE PyNone

----------------------------------------------------------------------------
\* Replies of the endpoint

Response(labels, confidences) ==
    [predictions |-> << [displayNames |-> labels, confidences |-> confidences] >>]

\* The replies a session gets: one or more for every way through the
\* prediction block
SessionReplies ==
    { TransportError,
      [predictions |-> << >>],
      [predictions |-> << [displayNames |-> <<Normal>>] >>],
      [predictions |-> << [confidences |-> <<90>>] >>],
      Response(<< >>, << >>),
      Response(<<Normal>>, <<20, 90>>),
      Response(<<PyNone>>, <<90>>),
      Response(<<Normal, PyNone>>, <<20, 90>>),
      Response(<<Normal, DEFECT>>, <<150, 20>>),
      Response(<<DEFECT, Normal>>, <<90, 150>>),
      Response(<<Normal>>, <<90>>),
      Response(<<DEFECT>>, <<90>>),
      Response(<<Normal, DEFECT>>, <<90, 90>>),
      Response(<<Normal, Defect, BadWeld>>, <<20, 90, 10>>),
      Response(<<bad_weld, Unknown>>, <<90, 20>>),
      Response(<<Unknown, defect>>, <<90, 20>>) }

----------------------------------------------------------------------------
\* The session

Init ==
    /\ session_state = NoSessionState
    /\ img_file_cam = PyNone
    /\ img_file_up = PyNone
    /\ endpoint_cache = NoEntry
    /\ auth_calls = 0
    /\ page = BlankPage
    /\ run = [k \in (DOMAIN NoRun(NoSessionState, NoEntry)) \ {"ss", "cache"} |->
                NoRun(NoSessionState, NoEntry)[k]]
    /\ completed = 0
    /\ endpoint_reply = PyNone

\* A browser opens the page: the first run of a session
Connect ==
    /\ ~page.rendered
    /\ Rerun(PyNone, PyNone, FALSE, TRUE, TransportError)

\* The camera widget gets a picture, or is cleared
CameraInput ==
    /\ page.rendered
    /\ \E cam \in {PyNone, CameraShot} :
         /\ cam # img_file_cam
         /\ Rerun(cam, img_file_up, FALSE, TRUE, TransportError)

\* The uploader gets a file, or is cleared
FileUpload ==
    /\ page.rendered
    /\ \E up \in {PyNone, UploadedJpg} :
         /\ up # img_file_up
         /\ Rerun(img_file_cam, up, FALSE, TRUE, TransportError)

\* A rerun with no widget changed (the page's rerun command)
Refresh ==
    /\ page.rendered
    /\ Rerun(img_file_cam, img_file_up, FALSE, TRUE, TransportError)

\* The trigger button of the page is pressed
PressButton(Replies) ==
    /\ page.rendered
    /\ page.button
    /\ session_state["total_inspected"] < MaxInspections
    /\ endpoint_cache = NoEntry => auth_calls < MaxAuthCalls
    /\ \/ \E rep \in Replies :
             Rerun(img_file_cam, img_file_up, TRUE, TRUE, rep)
       \/ /\ endpoint_cache = NoEntry
          /\ Rerun(img_file_cam, img_file_up, TRUE, FALSE, TransportError)

Press == PressButton(SessionReplies)

\* The session ends: its state and widgets are gone; the process and its
\* resource cache live on
Disconnect ==
    /\ page.rendered
    /\ session_state' = NoSessionState
    /\ img_file_cam' = PyNone
    /\ img_file_up' = PyNone
    /\ page' = BlankPage
    /\ run' = [k \in DOMAIN run |-> NoRun(NoSessionState, NoEntry)[k]]
    /\ completed' = 0
    /\ endpoint_reply' = PyNone
    /\ UNCHANGED <<endpoint_cache, auth_calls>>

Next == Connect \/ CameraInput \/ FileUpload \/ Refresh \/ Press \/ Disconnect

Spec == Init /\ [][Next]_vars

----------------------------------------------------------------------------
\* A single inspection, over all replies of up to MaxInspectLen labels

InspectLabels == {Normal, Defect, DEFECT, defect, BadWeld, Unknown}
InspectConfs == {10, 20, 90}

\* A page with an uploaded image, in a session that has inspected before
InitInspect ==
    /\ \E d \in 0..1, n \in 0..1 :
         session_state = [total_inspected |-> d + n, defect_count |-> d,
                          normal_count |-> n]
    /\ img_file_cam = PyNone
    /\ img_file_up = UploadedJpg
    /\ endpoint_cache = Endpoint
    /\ auth_calls = 1
    /\ page = [BlankPage EXCEPT !.rendered = TRUE,
                                !.dashboard = Dashboard(session_state),
                                !.img_file = UploadedJpg, !.button = TRUE]
    /\ run = [k \in (DOMAIN NoRun(NoSessionState, NoEntry)) \ {"ss", "cache"} |->
                NoRun(NoSessionState, NoEntry)[k]]
    /\ completed = session_state["total_inspected"]
    /\ \E k \in 1..MaxInspectLen :
         \E ls \in [1..k -> InspectLabels], cs \in [1..k -> InspectConfs] :
            endpoint_reply = Response(ls, cs)

\* The press that gets the reply
Inspect ==
    /\ ~run.pressed
    /\ PressButton({endpoint_reply})

NextInspect == Inspect

SpecInspect == InitInspect /\ [][NextInspect]_vars

----------------------------------------------------------------------------
\* Properties

Counters == <<session_state["total_inspected"], session_state["defect_count"],
              session_state["normal_count"]>>

\* C1: in every state of a session after the counters are initialised,
\* defect_count + normal_count = total_inspected.
C1_CountersBalanced ==
    page.rendered =>
        session_state["defect_count"] + session_state["normal_count"]
            = session_state["total_inspected"]

\* C2: a run whose prediction attempt failed (it shows an error message)
\* leaves all three counters as they were before the press and shows no
\* verdict panel.
C2_FailureLeavesCounters ==
    [][(run'.pressed /\ page'.error # PyNone) =>
          (session_state' = session_state /\ page'.verdict = PyNone)]_vars

\* C3: total_inspected equals the number of predictions the session has
\* completed; runs without a press and failed attempts do not change it.
C3_TotalIsCompleted ==
    page.rendered => session_state["total_inspected"] = completed

\* Two characters that differ at most in case
SameLetter(c, d) ==
    \/ c = d
    \/ \E i \in 1..Len(UpperCase) : {c, d} = {UpperCase[i], LowerCase[i]}

\* Two strings equal up to case
EqualIgnoringCase(a, b) ==
    /\ Len(a.chars) = Len(b.chars)
    /\ \A i \in 1..Len(a.chars) : SameLetter(a.chars[i], b.chars[i])

NamesADefect(label) ==
    EqualIgnoringCase(label, defect) \/ EqualIgnoringCase(label, bad_weld)

\* C4: a completed prediction adds one to total_inspected and one to exactly
\* one of defect_count and normal_count: to defect_count if and only if the
\* selected label equals "defect" or "bad weld" up to case, to normal_count
\* for every other label.
C4_OneCounterPerPrediction ==
    [][run'.completed =>
         /\ session_state'["total_inspected"] = session_state["total_inspected"] + 1
         /\ IF NamesADefect(run'.best_label)
            THEN /\ session_state'["defect_count"] = session_state["defect_count"] + 1
                 /\ session_state'["normal_count"] = session_state["normal_count"]
                 /\ page'.verdict.headline = "DEFECT"
            ELSE /\ session_state'["defect_count"] = session_state["defect_count"]
                 /\ session_state'["normal_count"] = session_state["normal_count"] + 1
                 /\ page'.verdict.headline = "NORMAL"]_vars

\* C4 happens: "DEFECT" was selected in a session that stood at 1 defect and
\* 1 normal, and now stands at 2 defects of 3
C4_Witness ==
    /\ run.completed
    /\ run.best_label = DEFECT
    /\ Counters = <<3, 2, 1>>

\* C5: for a non-empty response with index-aligned labels and confidences the
\* selected label is the one at the lowest index holding the maximum
\* confidence, and the score is that confidence times 100.
C5_FirstMaximum ==
    (run.pressed /\ run.predict_calls = 1) =>
        LET ls == endpoint_reply.predictions[1].displayNames
            cs == endpoint_reply.predictions[1].confidences
            i == run.max_idx + 1
        IN  /\ i \in 1..Len(cs)
            /\ \A j \in 1..Len(cs) : cs[j] <= cs[i]
            /\ \A j \in 1..(i - 1) : cs[j] < cs[i]
            /\ run.best_label = ls[i]
            /\ run.best_score = 100 * cs[i]
            /\ page.verdict.label = ls[i]
            /\ page.verdict.score = 100 * cs[i]

\* C5 happens: confidences [0.2, 0.9, 0.1] select "Defect" at 90.0 percent
C5_Witness ==
    /\ run.pressed
    /\ endpoint_reply = Response(<<Normal, Defect, BadWeld>>, <<20, 90, 10>>)
    /\ page.verdict.label = Defect
    /\ page.verdict.score = 9000

\* C6: the image of a run is the uploaded file whenever the uploader holds
\* one, else the camera picture if the camera holds one, else none.
C6_UploadTakesPrecedence ==
    page.rendered =>
        page.img_file = IF img_file_up # PyNone THEN img_file_up
                        ELSE IF img_file_cam # PyNone THEN img_file_cam
                        ELSE PyNone

\* C6 happens: both widgets hold an image and the uploaded one is shown
C6_Witness ==
    /\ page.rendered
    /\ img_file_cam = CameraShot
    /\ img_file_up = UploadedJpg
    /\ page.img_file = UploadedJpg

\* C7: a run calls predict at most once, and only when the button was
\* pressed in it and an image is active; a failed call is not repeated.
C7_OnePredictPerPress ==
    /\ run.predict_calls <= 1
    /\ run.predict_calls = 1 => (run.pressed /\ page.img_file # PyNone)
    /\ ~run.pressed => run.predict_calls = 0

\* C7 happens: the one call of a press failed
C7_Witness ==
    /\ run.pressed
    /\ run.predict_calls = 1
    /\ page.error = Raised("TransportError")

\* C8, as stated: the body of the initialiser runs at most once in the
\* life of the process.
C8_InitialisedAtMostOnce == auth_calls <= 1

\* C8, amended: once the initialiser has returned a handle, every later
\* call returns that handle and the body does not run again.
C8_NoReauthAfterSuccess ==
    [][endpoint_cache # NoEntry =>
          (auth_calls' = auth_calls /\ endpoint_cache' = endpoint_cache)]_vars

\* C8 happens: a press served from the cache, after a failed and a
\* successful initialisation
C8_Witness ==
    /\ run.pressed
    /\ ~run.executed
    /\ run.predict_calls = 1
    /\ endpoint_cache = Endpoint
    /\ auth_calls = 2

\* C9: the defect-rate card is the placeholder exactly when the total is 0,
\* else the percentage defects/total to the nearest tenth; no division by 0.
C9_DefectRateCard ==
    page.rendered =>
        LET d == page.dashboard IN
        /\ d.defect_rate # ZeroDivisionError
        /\ d.defect_rate = Placeholder <=> d.total = 0
        /\ d.total # 0 =>
             /\ d.defect_rate.text = "percent"
             /\ LET err == d.defect_rate.tenths * d.total - 1000 * d.defects
                IN  2 * err <= d.total /\ -2 * err <= d.total

\* C9 happens: 1 defect of 3 is shown as 33.3%
C9_Witness ==
    /\ page.rendered
    /\ page.dashboard.total = 3
    /\ page.dashboard.defects = 1
    /\ page.dashboard.defect_rate = [text |-> "percent", tenths |-> 333]

\* C10: the dashboard of a run shows the counters as they were when the run
\* began; a prediction completed in the run shows its verdict panel in that
\* run and reaches the dashboard with the next run.
C10_DashboardLagsOneRun ==
    [][(page.rendered /\ page'.rendered) =>
          /\ page'.dashboard.total = session_state["total_inspected"]
          /\ page'.dashboard.defects = session_state["defect_count"]
          /\ page'.dashboard.normals = session_state["normal_count"]
          /\ page'.dashboard.defect_rate =
                 defect_rate(session_state["defect_count"],
                             session_state["total_inspected"])
          /\ run'.completed =>
                /\ page'.verdict # PyNone
                /\ page'.dashboard.total + 1 = session_state'["total_inspected"]]_vars

\* C10 happens: the first prediction is completed and its verdict shown
\* while the dashboard still shows a total of 0
C10_Witness ==
    /\ run.completed
    /\ page.verdict # PyNone
    /\ page.dashboard.total = 0
    /\ page.dashboard.defect_rate = Placeholder
    /\ session_state["total_inspected"] = 1

====
